---- MODULE Spec2Model ----
(***************************************************************************)
(* Model of daisyStockAnalysis:                                            *)
(*   - strategies/break_retest.py : rolling_extrema, break_retest_signals  *)
(*   - data_provider/alpaca_provider.py : AlpacaProvider.stream_bars, the  *)
(*     shared upstream stream and its subscriber registry                  *)
(*   - server.py : the live append of ws_bars                              *)
(*   - strategies/crossover.py, indicators/indicator_utils.py : the        *)
(*     moving-average crossover columns                                    *)
(*                                                                         *)
(* Prices are integers (price * 100).                                      *)
(* tolerance is the rational tolerance / TolDen, and every float           *)
(* comparison of the source is done exactly on cross-multiplied integers.  *)
(* A Python None / pandas NaN extremum is the empty sequence, a value v is *)
(* <<v>>.                                                                  *)
(***************************************************************************)
EXTENDS Integers, Sequences, FiniteSets, TLC

VARIABLES
    closes,             \* the "Close" column handed to break_retest_signals
    lookback,           \* parameter lookback
    tolerance,          \* parameter tolerance, as a numerator over TolDen
    confirmation_bars,  \* parameter confirmation_bars
    det,                \* det[r]: the local variables of call r of break_retest_signals
    STREAM,             \* AlpacaProvider._STREAM: 0 (None) or the id of a stream
    STREAM_THREAD,      \* AlpacaProvider._STREAM_THREAD: 0 (None) or the id of its stream
    STREAM_LOCK,        \* AlpacaProvider._STREAM_LOCK: 0 (free) or the consumer holding it
    SUBSCRIBERS,        \* AlpacaProvider._SUBSCRIBERS: the registered (loop, q) pairs
    ACTIVE_TICKER,      \* AlpacaProvider._ACTIVE_TICKER
    ACTIVE_INTERVAL,    \* AlpacaProvider._ACTIVE_INTERVAL
    streams,            \* every StockDataStream created so far, by id
    emitted,            \* every bar handed to an on_bar callback so far, in order
    pc,                 \* pc[c]: where call c of stream_bars stands
    want,               \* want[c]: the (ticker, interval) arguments of call c
    need_restart,       \* need_restart[c]: the local of _ensure_stream_locked
    recv,               \* recv[c]: the items put on q of call c (indices into emitted)
    nread,              \* nread[c]: how many items call c has yielded
    regAt,              \* regAt[c]: Len(emitted) when call c registered its queue
    no_subs,            \* no_subs[c]: the outcome of `not _SUBSCRIBERS` in call c
    df,                 \* ws_bars: the accumulated frame, rows [ts, val] in index order
    nlive,              \* ws_bars: bars received from stream_bars so far
    fast_col,           \* the fast moving-average column handed to the crossover
    slow_col,           \* the slow moving-average column
    sig,                \* the crossover columns computed so far
    prefix,             \* prefix[r]: None, or <<k>> when call r is handed the first k rows
    ep,                 \* the last request or CLI step served: what was fetched, what came out
    last_alert_ts,      \* main(): last_alert_ts of the realtime loop
    notified,           \* main(): the notify() calls made so far, in order
    npoll,              \* main(): iterations of the realtime loop so far
    rt,                 \* main(): "off", "loop" or "stopped"
    prices,             \* the price column handed to ma / rsi / bollinger
    period,             \* their period
    ind                 \* the indicator columns computed so far

detVars == <<closes, lookback, tolerance, confirmation_bars, det>>

fanVars == <<STREAM, STREAM_THREAD, STREAM_LOCK, SUBSCRIBERS, ACTIVE_TICKER,
             ACTIVE_INTERVAL, streams, emitted, pc, want, need_restart, recv,
             nread, regAt, no_subs>>

cliVars == <<ep, last_alert_ts, notified, npoll, rt>>

indVars == <<prices, period, ind>>

moreVars == <<prefix, ep, last_alert_ts, notified, npoll, rt, prices, period, ind>>

auxVars == <<df, nlive, fast_col, slow_col, sig,
             prefix, ep, last_alert_ts, notified, npoll, rt, prices, period, ind>>

vars == <<closes, lookback, tolerance, confirmation_bars, det,
          STREAM, STREAM_THREAD, STREAM_LOCK, SUBSCRIBERS, ACTIVE_TICKER,
          ACTIVE_INTERVAL, streams, emitted, pc, want, need_restart, recv,
          nread, regAt, no_subs, df, nlive, fast_col, slow_col, sig,
          prefix, ep, last_alert_ts, notified, npoll, rt, prices, period, ind>>

(***************************************************************************)
(* Bounds and input sets                                                   *)
(***************************************************************************)
MaxLen == 6                      \* longest input series
TolDen == 1000                   \* tolerance = tolerance / TolDen
PriceVals == {1000, 1005, 1100, 1120}
LookbackVals == {2, 3}
ToleranceVals == {10}            \* 0.01
ConfirmVals == {1, 2}
Runs == {1, 2}                   \* calls of break_retest_signals on the same input

None == <<>>
Some(v) == <<v>>
NaN == -1                        \* a close that pd.to_numeric coerced to NaN

Max(a, b) == IF a >= b THEN a ELSE b
Min(a, b) == IF a <= b THEN a ELSE b
Abs(x) == IF x >= 0 THEN x ELSE -x

(***************************************************************************)
(* rolling_extrema: HH / LL of row i (1-based) over the window of the last *)
(* `lb` rows, row i included; undefined until lb rows are available.       *)
(***************************************************************************)
RECURSIVE WindowMax(_, _, _)
WindowMax(s, lo, hi) ==
    IF lo = hi THEN s[lo] ELSE Max(s[lo], WindowMax(s, lo + 1, hi))

RECURSIVE WindowMin(_, _, _)
WindowMin(s, lo, hi) ==
    IF lo = hi THEN s[lo] ELSE Min(s[lo], WindowMin(s, lo + 1, hi))

\* a window of lb rows ending at row i exists and holds no NaN
\* (min_periods = lookback counts the non-NaN observations)
FullWindow(s, lb, i) == i >= lb /\ \A k \in (i - lb + 1)..i : s[k] # NaN

\* the extremum taken over whatever rows are there, NaN skipped (min_periods = 1)
rolling_HH_partial(s, lb, i) ==
    LET m == WindowMax(s, Max(1, i - lb + 1), i) IN IF m = NaN THEN None ELSE Some(m)

\* the window of the lb rows after row i
rolling_HH_ahead(s, lb, i) ==
    IF i + lb > Len(s) THEN None ELSE Some(WindowMax(s, i + 1, i + lb))

rolling_HH(s, lb, i) ==
    IF FullWindow(s, lb, i) THEN Some(WindowMax(s, i - lb + 1, i)) ELSE None

rolling_LL(s, lb, i) ==
    IF FullWindow(s, lb, i) THEN Some(WindowMin(s, i - lb + 1, i)) ELSE None

\* broke_up = (price > hh).fillna(False), broke_dn = (price < ll).fillna(False)
broke_up(s, lb, i) ==
    LET hh == rolling_HH(s, lb, i) IN hh # None /\ s[i] > hh[1]

broke_dn(s, lb, i) ==
    LET ll == rolling_LL(s, lb, i) IN ll # None /\ s[i] < ll[1]

(***************************************************************************)
(* The loop-carried state before the first row.                            *)
(***************************************************************************)
\* the lists of an earlier call reused instead of fresh ones
LoopInitShared ==
    [pc |-> "loop", i |-> 0, regime |-> "neutral", level |-> None,
     bars_after_retest |-> 0, state |-> det[1].state,
     buy_signal |-> det[1].buy_signal, sell_signal |-> det[1].sell_signal,
     out |-> <<>>]

LoopInit ==
    [pc |-> "loop", i |-> 0, regime |-> "neutral", level |-> None,
     bars_after_retest |-> 0, state |-> <<>>, buy_signal |-> <<>>,
     sell_signal |-> <<>>, out |-> <<>>]

NotCalled ==
    [pc |-> "start", i |-> 0, regime |-> "neutral", level |-> None,
     bars_after_retest |-> 0, state |-> <<>>, buy_signal |-> <<>>,
     sell_signal |-> <<>>, out |-> <<>>]

\* the retest band taken on one side only: p - level instead of abs(p - level)
NearLevelOneSided(p, lv, tol) == p # NaN /\ (p - lv) * TolDen <= tol * lv
\* abs(p - level) / level <= tolerance, level > 0
NearLevel(p, lv, tol) == p # NaN /\ Abs(p - lv) * TolDen <= tol * lv
\* p < level * (1 - k * tolerance)
BelowBand(p, lv, tol, k) == p # NaN /\ p * TolDen < lv * (TolDen - k * tol)
\* p > level * (1 + k * tolerance)
AboveBand(p, lv, tol, k) == p # NaN /\ p * TolDen > lv * (TolDen + k * tol)

\* lines 70-71: both flags of a row start at 0
RowFlagsSet == [buy |-> 1, sell |-> 1]
RowFlags == [buy |-> 0, sell |-> 0]

\* the signal held back until the count exceeds confirmation_bars
ConfirmedLate(n, cb) == n > cb
\* lines 96 and 118: bars_after_retest >= confirmation_bars
Confirmed(n, cb) == n >= cb

\* a firing row that leaves the loop-carried state as it was
FireKeep(keep) == keep
\* lines 98-100 and 120-122: regime = "neutral"; level = None; bars_after_retest = 0
FireReset(keep) ==
    [keep EXCEPT !.regime = "neutral", !.level = None, !.bars_after_retest = 0]

(***************************************************************************)
(* One iteration of the loop: the new (regime, level, bars_after_retest)   *)
(* and the row's flags. err is TRUE when the iteration raises              *)
(* (ZeroDivisionError on a zero level).                                    *)
(***************************************************************************)
LoopBody(st, p, hh, ll, bu, bd, tol, cb) ==
    LET keep == [regime |-> st.regime, level |-> st.level,
                 bars_after_retest |-> st.bars_after_retest,
                 buy |-> RowFlags.buy, sell |-> RowFlags.sell, err |-> FALSE]
        neutral == [keep EXCEPT !.regime = "neutral", !.level = None]
    IN
    CASE st.regime = "neutral" ->
            IF bu /\ hh # None
            THEN [keep EXCEPT !.regime = "wait_retest_up", !.level = hh,
                              !.bars_after_retest = 0]
            ELSE IF bd /\ ll # None
            THEN [keep EXCEPT !.regime = "wait_retest_dn", !.level = ll,
                              !.bars_after_retest = 0]
            ELSE keep
      [] st.regime = "wait_retest_up" ->
            IF st.level = None THEN keep
            ELSE IF st.level[1] = 0 THEN [keep EXCEPT !.err = TRUE]
            ELSE IF NearLevel(p, st.level[1], tol)
            THEN [keep EXCEPT !.regime = "wait_confirm_up", !.bars_after_retest = 0]
            ELSE IF BelowBand(p, st.level[1], tol, 3) THEN neutral
            ELSE keep
      [] st.regime = "wait_confirm_up" ->
            IF st.level = None THEN keep
            ELSE IF p # NaN /\ p > st.level[1]
            THEN IF Confirmed(st.bars_after_retest + 1, cb)
                 THEN [FireReset(keep) EXCEPT !.buy = 1]
                 ELSE [keep EXCEPT !.bars_after_retest = st.bars_after_retest + 1]
            ELSE IF BelowBand(p, st.level[1], tol, 2)
            THEN [neutral EXCEPT !.bars_after_retest = 0]
            ELSE keep
      [] st.regime = "wait_retest_dn" ->
            IF st.level = None THEN keep
            ELSE IF st.level[1] = 0 THEN [keep EXCEPT !.err = TRUE]
            ELSE IF NearLevel(p, st.level[1], tol)
            THEN [keep EXCEPT !.regime = "wait_confirm_dn", !.bars_after_retest = 0]
            ELSE IF AboveBand(p, st.level[1], tol, 3) THEN neutral
            ELSE keep
      [] st.regime = "wait_confirm_dn" ->
            IF st.level = None THEN keep
            ELSE IF p # NaN /\ p < st.level[1]
            THEN IF Confirmed(st.bars_after_retest + 1, cb)
                 THEN [FireReset(keep) EXCEPT !.sell = 1]
                 ELSE [keep EXCEPT !.bars_after_retest = st.bars_after_retest + 1]
            ELSE IF AboveBand(p, st.level[1], tol, 2)
            THEN [neutral EXCEPT !.bars_after_retest = 0]
            ELSE keep

(***************************************************************************)
(* Actions of one call r of break_retest_signals                           *)
(***************************************************************************)
\* lines 11-14: the rows of the frame call r is handed
Input(r) ==
    IF prefix[r] = None THEN closes ELSE SubSeq(closes, 1, prefix[r][1])

\* lines 34-63: extrema and breakout columns are computed, the loop state is fresh
Begin(r) ==
    /\ det[r].pc = "start"
    /\ det' = [det EXCEPT ![r] = LoopInit]
    /\ UNCHANGED <<closes, lookback, tolerance, confirmation_bars>>
    /\ UNCHANGED fanVars
    /\ UNCHANGED auxVars

\* lines 65-130: one row
LoopRow(r) ==
    /\ det[r].pc = "loop"
    /\ det[r].i < Len(Input(r))
    /\ LET i == det[r].i + 1
           st == det[r]
           nx == LoopBody(st, Input(r)[i], rolling_HH(Input(r), lookback, i),
                          rolling_LL(Input(r), lookback, i),
                          broke_up(Input(r), lookback, i),
                          broke_dn(Input(r), lookback, i),
                          tolerance, confirmation_bars)
       IN det' = [det EXCEPT ![r] =
                    IF nx.err
                    THEN [st EXCEPT !.pc = "raised"]
                    ELSE [st EXCEPT !.i = i,
                                    !.regime = nx.regime,
                                    !.level = nx.level,
                                    !.bars_after_retest = nx.bars_after_retest,
                                    !.state = Append(st.state, nx.regime),
                                    !.buy_signal = Append(st.buy_signal, nx.buy),
                                    !.sell_signal = Append(st.sell_signal, nx.sell)]]
    /\ UNCHANGED <<closes, lookback, tolerance, confirmation_bars>>
    /\ UNCHANGED fanVars
    /\ UNCHANGED auxVars

\* lines 132-135: the three output columns; pd.Series(values, index) raises
\* when the list and the index differ in length
Return(r) ==
    /\ det[r].pc = "loop"
    /\ det[r].i = Len(Input(r))
    /\ det' = [det EXCEPT ![r] =
                 IF Len(det[r].buy_signal) # Len(Input(r))
                 THEN [@ EXCEPT !.pc = "raised"]
                 ELSE [@ EXCEPT !.pc = "done",
                           !.out = [k \in 1..Len(Input(r)) |->
                                      <<det[r].buy_signal[k], det[r].sell_signal[k],
                                        det[r].state[k]>>]]]
    /\ UNCHANGED <<closes, lookback, tolerance, confirmation_bars>>
    /\ UNCHANGED fanVars
    /\ UNCHANGED auxVars

(***************************************************************************)
(* AlpacaProvider.stream_bars: the shared upstream and its registry        *)
(***************************************************************************)
MaxStreams == 2                  \* StockDataStream objects created in a run
MaxBars == 2                     \* bars the upstream workers emit in a run
MaxTs == 2                       \* distinct bar timestamps
Cons == {1, 2}                   \* calls of stream_bars
Keys == {<<"AAPL", "1m">>, <<"AAPL", "5m">>, <<"MSFT", "1m">>}
NoKey == <<"None", "None">>

\* the registry entered without waiting for the lock
LockNotHeld == TRUE
\* with self.__class__._STREAM_LOCK: the lock can be taken only when free
LockFree == STREAM_LOCK = 0

\* lines 116-120
NeedRestart(tk, iv) ==
    \/ STREAM = 0
    \/ ACTIVE_TICKER # tk
    \/ ACTIVE_INTERVAL # iv

\* lines 111-120: take the lock, register (loop, q), evaluate need_restart
SubRegister(c, key) ==
    /\ pc[c] = "idle"
    /\ LockFree
    /\ STREAM_LOCK' = c
    /\ SUBSCRIBERS' = SUBSCRIBERS \cup {c}
    /\ want' = [want EXCEPT ![c] = key]
    /\ need_restart' = [need_restart EXCEPT ![c] = NeedRestart(key[1], key[2])]
    /\ regAt' = [regAt EXCEPT ![c] = Len(emitted)]
    /\ pc' = [pc EXCEPT ![c] = "sub_locked"]
    /\ UNCHANGED <<STREAM, STREAM_THREAD, ACTIVE_TICKER, ACTIVE_INTERVAL,
                   streams, emitted, recv, nread, no_subs>>
    /\ UNCHANGED detVars
    /\ UNCHANGED auxVars

\* stream.stop() inside try/except, then join(timeout=1): the call is made, and
\* the worker has either ended or is still running when the join returns
StopOutcomes(ss, s) ==
    IF s = 0 THEN {ss}
    ELSE IF ss[s].status = "running"
    THEN {[ss EXCEPT ![s].stop_called = TRUE, ![s].status = "stopped"],
          [ss EXCEPT ![s].stop_called = TRUE]}
    ELSE {[ss EXCEPT ![s].stop_called = TRUE]}

\* lines 121-163: restart the shared stream if needed, release the lock
SubEnsure(c) ==
    /\ pc[c] = "sub_locked"
    /\ IF need_restart[c]
       THEN /\ Len(streams) < MaxStreams
            /\ \E ss \in StopOutcomes(streams, STREAM) :
                 streams' = Append(ss, [ticker |-> want[c][1], status |-> "running",
                                        stop_called |-> FALSE, started |-> TRUE])
            /\ STREAM' = Len(streams) + 1
            /\ STREAM_THREAD' = Len(streams) + 1
            /\ ACTIVE_TICKER' = want[c][1]
            /\ ACTIVE_INTERVAL' = want[c][2]
       ELSE UNCHANGED <<streams, STREAM, STREAM_THREAD, ACTIVE_TICKER, ACTIVE_INTERVAL>>
    /\ STREAM_LOCK' = 0
    /\ pc' = [pc EXCEPT ![c] = "waiting"]
    /\ UNCHANGED <<SUBSCRIBERS, emitted, want, need_restart, recv, nread, regAt,
                   no_subs>>
    /\ UNCHANGED detVars
    /\ UNCHANGED auxVars

\* lines 121-163 when establishing the upstream raises. The old stream has
\* been stopped and forgotten (lines 122-134). at = "create":
\* StockDataStream(...) or subscribe_bars raises (lines 136, 155), the registry
\* keeps _STREAM = None and the previous ticker and interval. at = "start":
\* t.start() raises (line 161) after the registry was pointed at the new
\* stream (lines 157-160), whose worker never ran. The exception leaves the
\* with block, which releases the lock, and the function before its
\* try/finally is entered: (loop, q), added at line 112, is not discarded.
SubEnsureFail(c, at) ==
    /\ pc[c] = "sub_locked"
    /\ need_restart[c]
    /\ \E ss \in StopOutcomes(streams, STREAM) :
         IF at = "create"
         THEN /\ streams' = ss
              /\ STREAM' = 0
              /\ STREAM_THREAD' = 0
              /\ UNCHANGED <<ACTIVE_TICKER, ACTIVE_INTERVAL>>
         ELSE /\ Len(streams) < MaxStreams
              /\ streams' = Append(ss, [ticker |-> want[c][1], status |-> "failed",
                                        stop_called |-> FALSE, started |-> FALSE])
              /\ STREAM' = Len(streams) + 1
              /\ STREAM_THREAD' = Len(streams) + 1
              /\ ACTIVE_TICKER' = want[c][1]
              /\ ACTIVE_INTERVAL' = want[c][2]
    /\ STREAM_LOCK' = 0
    /\ pc' = [pc EXCEPT ![c] = "raised"]
    /\ UNCHANGED <<SUBSCRIBERS, emitted, want, need_restart, recv, nread, regAt,
                   no_subs>>
    /\ UNCHANGED detVars
    /\ UNCHANGED auxVars

\* the queues a bar fills only when the consumer has drained the one before
on_bar_targets_drained == {c \in SUBSCRIBERS : nread[c] = Len(recv[c])}
\* line 148: subs = list(_SUBSCRIBERS)
on_bar_targets == SUBSCRIBERS

\* lines 138-153: the worker of stream s hands one bar to on_bar, which puts it
\* on the queue of every registered subscriber
OnBar(s, ts) ==
    /\ s \in 1..Len(streams)
    /\ streams[s].status = "running"
    /\ Len(emitted) < MaxBars
    /\ emitted' = Append(emitted, [kind |-> "bar", src |-> s,
                                   ticker |-> streams[s].ticker, time |-> ts])
    /\ recv' = [c \in Cons |->
                  IF c \in on_bar_targets
                  THEN Append(recv[c], Len(emitted) + 1) ELSE recv[c]]
    /\ UNCHANGED <<STREAM, STREAM_THREAD, STREAM_LOCK, SUBSCRIBERS, ACTIVE_TICKER,
                   ACTIVE_INTERVAL, streams, pc, want, need_restart, nread, regAt,
                   no_subs>>
    /\ UNCHANGED detVars
    /\ UNCHANGED auxVars

\* lines 165-170: item = await q.get(); yield item
Drain(c) ==
    /\ pc[c] = "waiting"
    /\ nread[c] < Len(recv[c])
    /\ nread' = [nread EXCEPT ![c] = @ + 1]
    /\ UNCHANGED <<STREAM, STREAM_THREAD, STREAM_LOCK, SUBSCRIBERS, ACTIVE_TICKER,
                   ACTIVE_INTERVAL, streams, emitted, pc, want, need_restart, recv,
                   regAt, no_subs>>
    /\ UNCHANGED detVars
    /\ UNCHANGED auxVars

\* the shared stream stopped whenever a subscriber leaves
TeardownAlways == TRUE
\* line 179: if not self.__class__._SUBSCRIBERS
NoSubscribers == SUBSCRIBERS = {}

\* lines 171-179: the generator is cancelled or closed; take the lock, discard
\* (loop, q), test whether a subscriber is left
UnsubDiscard(c) ==
    /\ pc[c] = "waiting"
    /\ LockFree
    /\ STREAM_LOCK' = c
    /\ SUBSCRIBERS' = SUBSCRIBERS \ {c}
    /\ no_subs' = [no_subs EXCEPT ![c] = NoSubscribers']
    /\ pc' = [pc EXCEPT ![c] = "unsub_locked"]
    /\ UNCHANGED <<STREAM, STREAM_THREAD, ACTIVE_TICKER, ACTIVE_INTERVAL, streams,
                   emitted, want, need_restart, recv, nread, regAt>>
    /\ UNCHANGED detVars
    /\ UNCHANGED auxVars

\* lines 180-193: stop the shared stream when no subscriber was left, release
\* the lock; the call's frame ends
UnsubTeardown(c) ==
    /\ pc[c] = "unsub_locked"
    /\ IF no_subs[c]
       THEN /\ \E ss \in StopOutcomes(streams, STREAM) : streams' = ss
            /\ STREAM' = 0
            /\ STREAM_THREAD' = 0
            /\ ACTIVE_TICKER' = "None"
            /\ ACTIVE_INTERVAL' = "None"
       ELSE UNCHANGED <<streams, STREAM, STREAM_THREAD, ACTIVE_TICKER, ACTIVE_INTERVAL>>
    /\ STREAM_LOCK' = 0
    /\ pc' = [pc EXCEPT ![c] = "done"]
    /\ no_subs' = [no_subs EXCEPT ![c] = FALSE]
    /\ UNCHANGED <<SUBSCRIBERS, emitted, want, need_restart, recv, nread, regAt>>
    /\ UNCHANGED detVars
    /\ UNCHANGED auxVars

\* line 156: target=stream.run; the run ends with an error (connection failure)
WorkerFail(s) ==
    /\ s \in 1..Len(streams)
    /\ streams[s].status = "running"
    /\ ~streams[s].stop_called
    /\ streams' = [streams EXCEPT ![s].status = "failed"]
    /\ UNCHANGED <<STREAM, STREAM_THREAD, STREAM_LOCK, SUBSCRIBERS, ACTIVE_TICKER,
                   ACTIVE_INTERVAL, emitted, pc, want, need_restart, recv, nread, regAt,
                   no_subs>>
    /\ UNCHANGED detVars
    /\ UNCHANGED auxVars

\* a worker whose stop was requested ends after the join has timed out
WorkerExit(s) ==
    /\ s \in 1..Len(streams)
    /\ streams[s].status = "running"
    /\ streams[s].stop_called
    /\ streams' = [streams EXCEPT ![s].status = "stopped"]
    /\ UNCHANGED <<STREAM, STREAM_THREAD, STREAM_LOCK, SUBSCRIBERS, ACTIVE_TICKER,
                   ACTIVE_INTERVAL, emitted, pc, want, need_restart, recv, nread, regAt,
                   no_subs>>
    /\ UNCHANGED detVars
    /\ UNCHANGED auxVars

\* lines 35-40: the class attributes as the module is loaded
FanInit ==
    /\ STREAM = 0
    /\ STREAM_THREAD = 0
    /\ STREAM_LOCK = 0
    /\ SUBSCRIBERS = {}
    /\ ACTIVE_TICKER = "None"
    /\ ACTIVE_INTERVAL = "None"
    /\ streams = <<>>
    /\ emitted = <<>>
    /\ pc = [c \in Cons |-> "idle"]
    /\ want = [c \in Cons |-> NoKey]
    /\ need_restart = [c \in Cons |-> FALSE]
    /\ recv = [c \in Cons |-> <<>>]
    /\ nread = [c \in Cons |-> 0]
    /\ regAt = [c \in Cons |-> 0]
    /\ no_subs = [c \in Cons |-> FALSE]

SeriesUpTo(n) == UNION {[1..k -> PriceVals] : k \in 0..n}

DetInit ==
    /\ closes \in SeriesUpTo(MaxLen)
    /\ lookback \in LookbackVals
    /\ tolerance \in ToleranceVals
    /\ confirmation_bars \in ConfirmVals
    /\ det = [r \in Runs |-> NotCalled]

\* ws_bars and the crossover functions have not been called
NoSig == [returned |-> {}, buy |-> <<>>, sell |-> <<>>,
          SIG_GOLDEN |-> <<>>, SIG_DEATH |-> <<>>]

\* no request has been served and the realtime loop has not been entered
NoRequest == [name |-> "none", fetched |-> "none", computed |-> FALSE,
              outcome |-> "none", row |-> None]

CliIdle ==
    /\ ep = NoRequest
    /\ last_alert_ts = None
    /\ notified = <<>>
    /\ npoll = 0
    /\ rt = "off"

\* no indicator function has been called
NoInd == [returned |-> {}, MA |-> <<>>, RSI |-> <<>>, BB_MA |-> <<>>]

IndIdle ==
    /\ prices = <<>>
    /\ period = 1
    /\ ind = NoInd

\* every call of break_retest_signals is handed the whole series
MoreIdle ==
    /\ prefix = [r \in Runs |-> None]
    /\ CliIdle
    /\ IndIdle

AuxIdle ==
    /\ MoreIdle
    /\ df = <<>>
    /\ nlive = 0
    /\ fast_col = <<>>
    /\ slow_col = <<>>
    /\ sig = NoSig

\* no call of break_retest_signals is under way
DetIdle ==
    /\ closes = <<>>
    /\ lookback = 2
    /\ tolerance = 10
    /\ confirmation_bars = 1
    /\ det = [r \in Runs |-> NotCalled]

(***************************************************************************)
(* Spec: one call of break_retest_signals on every bounded input           *)
(***************************************************************************)
Init == DetInit /\ FanInit /\ AuxIdle

Next ==
    \/ Begin(1)
    \/ LoopRow(1)
    \/ Return(1)

Spec == Init /\ [][Next]_vars

(***************************************************************************)
(* SpecReplay: two calls of break_retest_signals on the same input, their  *)
(* steps interleaved in every order                                        *)
(***************************************************************************)
ReplayLen == 4

ReplayInit ==
    /\ closes \in SeriesUpTo(ReplayLen)
    /\ lookback \in LookbackVals
    /\ tolerance \in ToleranceVals
    /\ confirmation_bars \in ConfirmVals
    /\ det = [r \in Runs |-> NotCalled]
    /\ FanInit
    /\ AuxIdle

ReplayNext ==
    \/ \E r \in Runs : Begin(r)
    \/ \E r \in Runs : LoopRow(r)
    \/ \E r \in Runs : Return(r)

SpecReplay == ReplayInit /\ [][ReplayNext]_vars

(***************************************************************************)
(* SpecFan: the calls of stream_bars, the upstream workers and the bars    *)
(***************************************************************************)
FanSpecInit == DetIdle /\ FanInit /\ AuxIdle

FanNext ==
    \/ \E c \in Cons, key \in Keys : SubRegister(c, key)
    \/ \E c \in Cons : SubEnsure(c)
    \/ \E s \in 1..MaxStreams, ts \in 1..MaxTs : OnBar(s, ts)
    \/ \E c \in Cons : Drain(c)
    \/ \E c \in Cons : UnsubDiscard(c)
    \/ \E c \in Cons : UnsubTeardown(c)
    \/ \E s \in 1..MaxStreams : WorkerFail(s)
    \/ \E s \in 1..MaxStreams : WorkerExit(s)

SpecFan == FanSpecInit /\ [][FanNext]_vars

\* the event loop runs every ready coroutine step: a call holding the lock
\* finishes its locked section, and a queued item is yielded
FairSpecFan ==
    /\ SpecFan
    /\ WF_vars(\E c \in Cons : SubEnsure(c))
    /\ WF_vars(\E c \in Cons : UnsubTeardown(c))
    /\ WF_vars(\E c \in Cons : Drain(c))

(***************************************************************************)
(* SpecFanFault: the calls of stream_bars when establishing the upstream   *)
(* can raise; no bar is delivered                                          *)
(***************************************************************************)
FaultPoints == {"create", "start"}

FaultNext ==
    \/ \E c \in Cons, key \in Keys : SubRegister(c, key)
    \/ \E c \in Cons : SubEnsure(c)
    \/ \E c \in Cons, at \in FaultPoints : SubEnsureFail(c, at)
    \/ \E c \in Cons : UnsubDiscard(c)
    \/ \E c \in Cons : UnsubTeardown(c)

SpecFanFault == FanSpecInit /\ [][FaultNext]_vars

(***************************************************************************)
(* SpecBadParams: one call of break_retest_signals with parameters in and  *)
(* out of their documented ranges                                          *)
(***************************************************************************)
BadLen == 3
BadLookbackVals == {1, 2}
BadToleranceVals == {-10, 10}
BadConfirmVals == {0, 1}

BadInit ==
    /\ closes \in SeriesUpTo(BadLen)
    /\ lookback \in BadLookbackVals
    /\ tolerance \in BadToleranceVals
    /\ confirmation_bars \in BadConfirmVals
    /\ det = [r \in Runs |-> NotCalled]
    /\ FanInit
    /\ AuxIdle

SpecBadParams == BadInit /\ [][Next]_vars

(***************************************************************************)
(* SpecGaps: one call of break_retest_signals on series with NaN closes    *)
(***************************************************************************)
GapLen == 4
GapPrices == {1000, 1100, NaN}

GapInit ==
    /\ closes \in UNION {[1..k -> GapPrices] : k \in 0..GapLen}
    /\ lookback \in LookbackVals
    /\ tolerance \in ToleranceVals
    /\ confirmation_bars \in ConfirmVals
    /\ det = [r \in Runs |-> NotCalled]
    /\ FanInit
    /\ AuxIdle

SpecGaps == GapInit /\ [][Next]_vars

(***************************************************************************)
(* SpecPrefix: call 1 on a series, call 2 on its first k rows, their steps *)
(* interleaved in every order                                              *)
(***************************************************************************)
PrefixLen == 4

PrefixInit ==
    /\ closes \in SeriesUpTo(PrefixLen)
    /\ lookback \in LookbackVals
    /\ tolerance \in ToleranceVals
    /\ confirmation_bars \in ConfirmVals
    /\ det = [r \in Runs |-> NotCalled]
    /\ \E k \in 0..Len(closes) : prefix = [r \in Runs |-> IF r = 2 THEN Some(k) ELSE None]
    /\ FanInit
    /\ df = <<>>
    /\ nlive = 0
    /\ fast_col = <<>>
    /\ slow_col = <<>>
    /\ sig = NoSig
    /\ CliIdle
    /\ IndIdle

SpecPrefix == PrefixInit /\ [][ReplayNext]_vars

(***************************************************************************)
(* SpecLoop: the loop of break_retest_signals over arbitrary HH and LL     *)
(* columns. The function computes HH and LL itself, so its runs are the    *)
(* runs of SpecLoop in which hh and ll are the rolling extrema of the      *)
(* closes; what holds of every run of SpecLoop holds of the function.      *)
(***************************************************************************)
LoopLen == 5
LoopPrices == {950, 990, 1000, 1100}
HHVals == {None, Some(0), Some(1000)}
LLVals == {None, Some(1000)}

\* lines 65-130 on a row with close p and extrema hh, ll; lines 53-54 give
\* the row's breakout flags
LoopStep(p, hh, ll) ==
    /\ det[1].pc = "loop"
    /\ det[1].i < LoopLen
    /\ LET st == det[1]
           nx == LoopBody(st, p, hh, ll,
                          hh # None /\ p > hh[1], ll # None /\ p < ll[1],
                          tolerance, confirmation_bars)
       IN det' = [det EXCEPT ![1] =
                    IF nx.err
                    THEN [st EXCEPT !.pc = "raised"]
                    ELSE [st EXCEPT !.i = st.i + 1,
                                    !.regime = nx.regime,
                                    !.level = nx.level,
                                    !.bars_after_retest = nx.bars_after_retest,
                                    !.state = Append(st.state, nx.regime),
                                    !.buy_signal = Append(st.buy_signal, nx.buy),
                                    !.sell_signal = Append(st.sell_signal, nx.sell)]]
    /\ closes' = Append(closes, p)
    /\ UNCHANGED <<lookback, tolerance, confirmation_bars>>
    /\ UNCHANGED fanVars
    /\ UNCHANGED auxVars

\* lines 57-63: the loop is about to read its first row
LoopSpecInit ==
    /\ closes = <<>>
    /\ lookback = 2
    /\ tolerance \in ToleranceVals
    /\ confirmation_bars \in ConfirmVals
    /\ det = [r \in Runs |-> IF r = 1 THEN LoopInit ELSE NotCalled]
    /\ FanInit
    /\ AuxIdle

LoopNext == \E p \in LoopPrices, hh \in HHVals, ll \in LLVals : LoopStep(p, hh, ll)

SpecLoop == LoopSpecInit /\ [][LoopNext]_vars

(***************************************************************************)
(* Claims about break_retest_signals                                       *)
(***************************************************************************)
\* The level a close has to exceed in the spec's scenario: the high (low) of
\* the lb closes before row b, undefined until lb closes precede it.
PriorHigh(s, lb, b) == WindowMax(s, b - lb, b - 1)
PriorLow(s, lb, b) == WindowMin(s, b - lb, b - 1)

\* Row b is the first breakout of the series and closes above the prior high,
\* row b+1 closes within tolerance of that level, the next confirmation_bars
\* rows close above it, and the series ends there.
C1_Pattern(b) ==
    /\ b > lookback
    /\ Len(closes) = b + 1 + confirmation_bars
    /\ \A j \in (lookback + 1)..(b - 1) :
         /\ closes[j] <= PriorHigh(closes, lookback, j)
         /\ closes[j] >= PriorLow(closes, lookback, j)
    /\ closes[b] > PriorHigh(closes, lookback, b)
    /\ NearLevel(closes[b + 1], PriorHigh(closes, lookback, b), tolerance)
    /\ \A k \in (b + 2)..(b + 1 + confirmation_bars) :
         closes[k] > PriorHigh(closes, lookback, b)

\* C1: over a series that breaks above the rolling high, retests it within
\* tolerance and then closes confirmation_bars rows above it, exactly one row
\* carries BRK_BUY = 1: the row where the confirmation count reaches
\* confirmation_bars, and BRK_STATE of that row is neutral.
C1_BuyAtConfirmation ==
    (det[1].pc = "done" /\ \E b \in 1..Len(closes) : C1_Pattern(b)) =>
        /\ det[1].out[Len(closes)][1] = 1
        /\ det[1].out[Len(closes)][3] = "neutral"
        /\ \A k \in 1..(Len(closes) - 1) : det[1].out[k][1] = 0

C2_Closes == <<1000, 1000, 1000, 1100, 1005, 1120>>

C2_Input ==
    /\ closes = C2_Closes
    /\ lookback = 3
    /\ tolerance = 10
    /\ confirmation_bars = 1

\* C2: for lookback=3, tolerance=0.01, confirmation_bars=1 and closes
\* [10,10,10,11,10.05,11.2] the trace is: rows 0-2 neutral; row 3
\* wait_retest_up with level 10; row 4 wait_confirm_up; row 5 BRK_BUY=1 with
\* BRK_STATE neutral; BRK_SELL 0 on every row, BRK_BUY 0 on rows 0-4.
C2_ScenarioTrace ==
    /\ (C2_Input /\ det[1].pc = "loop" /\ det[1].i = 4) =>
           (det[1].regime = "wait_retest_up" /\ det[1].level = Some(1000))
    /\ (C2_Input /\ det[1].pc = "done") =>
           det[1].out = << <<0, 0, "neutral">>, <<0, 0, "neutral">>,
                           <<0, 0, "neutral">>, <<0, 0, "wait_retest_up">>,
                           <<0, 0, "wait_confirm_up">>, <<1, 0, "neutral">> >>

\* C3: no output row has BRK_BUY = 1 and BRK_SELL = 1 at the same time.
C3_NeverBuyAndSell ==
    /\ \A k \in 1..Len(det[1].buy_signal) :
         ~(det[1].buy_signal[k] = 1 /\ det[1].sell_signal[k] = 1)
    /\ \A k \in 1..Len(det[1].out) :
         ~(det[1].out[k][1] = 1 /\ det[1].out[k][2] = 1)

\* a finished call whose series is long enough for HH and LL to be defined
C3_Witness ==
    /\ det[1].pc = "done"
    /\ Len(det[1].out) > lookback

Ended(r) == det[r].pc \in {"done", "raised"}

InvalidParams == lookback < 2 \/ tolerance < 0 \/ confirmation_bars < 1

\* C18: a call with lookback < 2, a negative tolerance or
\* confirmation_bars < 1 is rejected before any row is processed: it appends
\* no row and returns no frame.
C18_BadParametersRejected ==
    InvalidParams =>
        /\ det[1].state = <<>>
        /\ det[1].buy_signal = <<>>
        /\ det[1].out = <<>>

Fires(k) == det[1].buy_signal[k] = 1 \/ det[1].sell_signal[k] = 1

\* C20: a row that fires has BRK_STATE neutral (it starts no breakout), and the
\* loop leaves it with regime neutral, no level and a confirmation count of 0,
\* which is the state the next row is evaluated from.
C20_FiringReturnsToNeutral ==
    /\ \A k \in 1..Len(det[1].state) : Fires(k) => det[1].state[k] = "neutral"
    /\ (det[1].pc = "loop" /\ Len(det[1].state) > 0 /\ Fires(Len(det[1].state))) =>
          /\ det[1].regime = "neutral"
          /\ det[1].level = None
          /\ det[1].bars_after_retest = 0

\* a row fired a buy and the row after it, read from neutral, started the next
\* breakout
C20_Witness ==
    \E k \in 1..(Len(det[1].state) - 1) :
        /\ det[1].buy_signal[k] = 1
        /\ det[1].state[k] = "neutral"
        /\ det[1].state[k + 1] = "wait_retest_up"

\* row k has fewer than lookback rows up to it, or a NaN close in its window
UndefinedRow(k) ==
    \/ k < lookback
    \/ \E j \in (k - lookback + 1)..k : j >= 1 /\ closes[j] = NaN

\* C21: on a row with fewer than lookback rows available or a NaN close in
\* its window, HH and LL are undefined, no breakout is flagged, and the
\* detector coming from neutral stays neutral with BRK_BUY = 0 and
\* BRK_SELL = 0; so the first lookback-1 rows are neutral without a signal.
C21_UndefinedExtremaStayNeutral ==
    \A k \in 1..Len(det[1].state) :
        UndefinedRow(k) =>
            /\ rolling_HH(closes, lookback, k) = None
            /\ rolling_LL(closes, lookback, k) = None
            /\ ~broke_up(closes, lookback, k)
            /\ ~broke_dn(closes, lookback, k)
            /\ det[1].buy_signal[k] = 0
            /\ det[1].sell_signal[k] = 0
            /\ (k = 1 \/ det[1].state[k - 1] = "neutral") => det[1].state[k] = "neutral"

\* a finished call on a series with a row of defined extrema and a later row
\* whose window holds a NaN close
C21_Witness ==
    /\ det[1].pc = "done"
    /\ \E j \in 1..Len(closes), k \in 1..Len(closes) :
         /\ j < k
         /\ ~UndefinedRow(j)
         /\ k >= lookback
         /\ UndefinedRow(k)
         /\ det[1].out[k] = <<0, 0, "neutral">>

\* C22: the rows returned for the first k rows of a series are the first k
\* rows returned for the whole series.
C22_NoLookAhead ==
    (det[1].pc = "done" /\ det[2].pc = "done") =>
        /\ Len(det[2].out) = prefix[2][1]
        /\ det[2].out = SubSeq(det[1].out, 1, prefix[2][1])

\* both calls have returned; the prefix is a proper one and reaches past the
\* warm-up of the extrema
C22_Witness ==
    /\ det[1].pc = "done"
    /\ det[2].pc = "done"
    /\ prefix[2] # None
    /\ prefix[2][1] < Len(closes)
    /\ prefix[2][1] > lookback

\* the step appends a row that sets BRK_BUY (BRK_SELL)
BuyFiresNow ==
    /\ Len(det'[1].buy_signal) = Len(det[1].buy_signal) + 1
    /\ det'[1].buy_signal[Len(det'[1].buy_signal)] = 1

SellFiresNow ==
    /\ Len(det'[1].sell_signal) = Len(det[1].sell_signal) + 1
    /\ det'[1].sell_signal[Len(det'[1].sell_signal)] = 1

RowProcessed == det'[1].pc = "loop" /\ det'[1].i = det[1].i + 1

\* the flags of the row just appended are both 0
NoSignalNow ==
    /\ det'[1].buy_signal = Append(det[1].buy_signal, 0)
    /\ det'[1].sell_signal = Append(det[1].sell_signal, 0)

\* C26: from wait_retest_up with a non-zero level a row does exactly one of:
\* go to wait_confirm_up with count 0 when |close - level| / level <=
\* tolerance; else go to neutral with the level cleared when
\* close < level * (1 - 3 * tolerance); else stay with the level unchanged.
\* wait_retest_dn is the mirror, invalidated when
\* close > level * (1 + 3 * tolerance). Neither emits a signal or takes a new
\* level.
C26_RetestTransitions ==
    [][ ( /\ det[1].regime \in {"wait_retest_up", "wait_retest_dn"}
          /\ det[1].level # None
          /\ det[1].level[1] # 0
          /\ RowProcessed ) =>
        LET up == det[1].regime = "wait_retest_up"
            p == closes'[Len(closes')]
            lv == det[1].level[1]
            dist == IF p >= lv THEN p - lv ELSE lv - p
            near == dist * TolDen <= tolerance * lv
            lost == IF up THEN p * TolDen < lv * (TolDen - 3 * tolerance)
                          ELSE p * TolDen > lv * (TolDen + 3 * tolerance)
        IN /\ NoSignalNow
           /\ IF near
              THEN /\ det'[1].regime = (IF up THEN "wait_confirm_up" ELSE "wait_confirm_dn")
                   /\ det'[1].bars_after_retest = 0
                   /\ det'[1].level = det[1].level
              ELSE IF lost
              THEN /\ det'[1].regime = "neutral"
                   /\ det'[1].level = None
              ELSE /\ det'[1].regime = det[1].regime
                   /\ det'[1].level = det[1].level
                   /\ det'[1].bars_after_retest = det[1].bars_after_retest ]_vars

\* rows that stayed in wait_retest_up, left it for neutral, and left it for
\* wait_confirm_up
C26_Witness ==
    /\ \E k \in 1..(Len(det[1].state) - 1) :
         det[1].state[k] = "wait_retest_up" /\ det[1].state[k + 1] = "wait_retest_up"
    /\ \E k \in 1..(Len(det[1].state) - 1) :
         det[1].state[k] = "wait_retest_up" /\ det[1].state[k + 1] = "neutral"
    /\ \E k \in 1..(Len(det[1].state) - 1) :
         det[1].state[k] = "wait_retest_up" /\ det[1].state[k + 1] = "wait_confirm_up"

\* C27: after every row the level is undefined exactly in neutral, the
\* confirmation count is 0 in neutral and in both wait_retest regimes, and in
\* both wait_confirm regimes it is at least 0 and less than confirmation_bars.
C27_LoopStateInvariant ==
    det[1].pc = "loop" =>
        /\ (det[1].level = None) <=> (det[1].regime = "neutral")
        /\ det[1].regime \in {"neutral", "wait_retest_up", "wait_retest_dn"} =>
             det[1].bars_after_retest = 0
        /\ det[1].regime \in {"wait_confirm_up", "wait_confirm_dn"} =>
             /\ det[1].bars_after_retest >= 0
             /\ det[1].bars_after_retest < confirmation_bars

\* one close above the level has been counted and a second one is awaited
C27_Witness ==
    /\ det[1].pc = "loop"
    /\ det[1].regime = "wait_confirm_up"
    /\ det[1].bars_after_retest = 1
    /\ confirmation_bars = 2
    /\ det[1].level = Some(1000)

(***************************************************************************)
(* Claims about stream_bars                                                *)
(***************************************************************************)
\* C5: when two calls of stream_bars for the same (ticker, interval) have both
\* subscribed, starting from the empty registry and in whatever order their
\* steps ran, exactly one stream has been created and started, and it is the
\* registry's stream for both.
C5_OneUpstreamForTwo ==
    \A a \in Cons, b \in Cons :
        ( /\ a # b
          /\ pc[a] = "waiting"
          /\ pc[b] = "waiting"
          /\ want[a] = want[b]
          /\ \A c \in Cons \ {a, b} : pc[c] = "idle" ) =>
        /\ Len(streams) = 1
        /\ streams[1].started
        /\ streams[1].ticker = want[a][1]
        /\ STREAM = 1
        /\ STREAM_THREAD = 1
        /\ SUBSCRIBERS = {a, b}

\* both calls are subscribed to the same key and the shared stream has
\* delivered a bar
C5_Witness ==
    /\ pc[1] = "waiting"
    /\ pc[2] = "waiting"
    /\ want[1] = want[2]
    /\ Len(recv[1]) > 0
    /\ Len(recv[2]) > 0

\* C6: a registered consumer's queue has received every bar emitted since it
\* registered, once each and in emission order, whatever the other consumers
\* have done (left, or left their queues undrained).
C6_EveryBarOnceInOrder ==
    \A c \in SUBSCRIBERS :
        recv[c] = [k \in 1..(Len(emitted) - regAt[c]) |-> regAt[c] + k]

\* consumer a of the same key never drained its queue and has left; b is still
\* registered on the same stream and has received a bar emitted after a left
C6_Witness ==
    \E a \in Cons, b \in Cons :
        /\ a # b
        /\ want[a] = want[b]
        /\ pc[a] = "done"
        /\ nread[a] = 0
        /\ Len(recv[a]) = 1
        /\ b \in SUBSCRIBERS
        /\ pc[b] = "waiting"
        /\ Len(recv[b]) = 2
        /\ Len(streams) = 1
        /\ STREAM = 1

\* C7: the unsubscribe of the last registered consumer calls stop on the shared
\* stream and leaves the registry with no stream, no thread and no active
\* ticker/interval; an unsubscribe that leaves a consumer registered changes
\* neither the registry nor any stream.
C7_LastUnsubscribeTearsDown ==
    [][ \A c \in Cons :
          (pc[c] = "unsub_locked" /\ pc'[c] = "done") =>
             IF SUBSCRIBERS = {}
             THEN /\ STREAM' = 0
                  /\ STREAM_THREAD' = 0
                  /\ ACTIVE_TICKER' = "None"
                  /\ ACTIVE_INTERVAL' = "None"
                  /\ STREAM # 0 => streams'[STREAM].stop_called
             ELSE /\ STREAM' = STREAM
                  /\ STREAM_THREAD' = STREAM_THREAD
                  /\ ACTIVE_TICKER' = ACTIVE_TICKER
                  /\ ACTIVE_INTERVAL' = ACTIVE_INTERVAL
                  /\ streams' = streams ]_vars

\* one consumer left while the other stayed (the stream kept running and
\* delivered a bar afterwards), then the last one left and the stream was stopped
C7_Witness ==
    /\ pc[1] = "done"
    /\ pc[2] = "done"
    /\ SUBSCRIBERS = {}
    /\ STREAM = 0
    /\ STREAM_THREAD = 0
    /\ ACTIVE_TICKER = "None"
    /\ Len(streams) = 1
    /\ streams[1].stop_called
    /\ Len(recv[1]) # Len(recv[2])

\* C8: every bar put on a consumer's queue is a bar of the ticker that
\* consumer subscribed to.
C8_OnlyOwnTicker ==
    \A c \in Cons :
        \A k \in 1..Len(recv[c]) : emitted[recv[c][k]].ticker = want[c][1]

\* the bars call c has yielded so far, in order
Drained(c) == [k \in 1..nread[c] |-> emitted[recv[c][k]]]

\* C9: the bars a consumer drains have non-decreasing timestamps and no two of
\* them have the same timestamp.
C9_DrainedStrictlyOrdered ==
    \A c \in Cons :
        \A j \in 1..nread[c], k \in 1..nread[c] :
            j < k => Drained(c)[j].time < Drained(c)[k].time

ErrorDelivered(c) ==
    \E k \in 1..Len(recv[c]) : emitted[recv[c][k]].kind = "error"

UpstreamFailed == STREAM # 0 /\ streams[STREAM].status = "failed"

\* C10: when the worker of the shared stream has ended with an error, every
\* consumer registered then eventually has a terminal error event on its
\* queue, unless it has left by itself or the registry's stream has been
\* replaced meanwhile: none waits forever on the dead upstream.
C10_FailureReachesConsumers ==
    \A c \in Cons :
        (UpstreamFailed /\ c \in SUBSCRIBERS /\ pc[c] = "waiting")
            ~> (ErrorDelivered(c) \/ c \notin SUBSCRIBERS \/ ~UpstreamFailed)

\* C11: a subscribe to the (ticker, interval) of the registry's stream after
\* that stream's worker has failed decides to open a fresh stream
\* (need_restart), whether or not other consumers are still registered.
C11_FreshUpstreamAfterFailure ==
    [][ \A c \in Cons :
          ( /\ pc[c] = "idle"
            /\ pc'[c] = "sub_locked"
            /\ UpstreamFailed
            /\ want'[c] = <<ACTIVE_TICKER, ACTIVE_INTERVAL>> ) =>
          need_restart'[c] ]_vars

\* C12: a stream whose worker is still running is the registry's stream: the
\* registry never forgets a live worker, so at most one worker is live.
C12_ReleasedWorkerHasStopped ==
    \A s \in 1..Len(streams) : streams[s].status = "running" => s = STREAM

\* C13: a consumer that has completed its subscribe and is registered is
\* attached to the registry's stream, which has a thread and was never asked to
\* stop (it is live unless its worker failed by itself, C10); and when another
\* consumer of the same (ticker, interval) has completed its unsubscribe, in
\* whatever order the two calls' steps ran, the consumer that stays is
\* registered and the registry's stream is the one for its (ticker, interval).
C13_NoAttachToTornDown ==
    /\ \A c \in SUBSCRIBERS :
         pc[c] = "waiting" =>
            /\ STREAM # 0
            /\ STREAM_THREAD = STREAM
            /\ ~streams[STREAM].stop_called
            /\ streams[STREAM].status # "stopped"
    /\ \A a \in Cons, b \in Cons :
         (a # b /\ pc[a] = "done" /\ pc[b] = "waiting" /\ want[a] = want[b]) =>
            /\ b \in SUBSCRIBERS
            /\ STREAM # 0
            /\ <<ACTIVE_TICKER, ACTIVE_INTERVAL>> = want[b]
            /\ streams[STREAM].ticker = want[b][1]

\* consumer a was the last one and tore the first stream down; consumer b of
\* the same key subscribed and is served by a second stream
C13_Witness ==
    \E a \in Cons, b \in Cons :
        /\ a # b
        /\ pc[a] = "done"
        /\ pc[b] = "waiting"
        /\ want[a] = want[b]
        /\ Len(streams) = 2
        /\ streams[1].stop_called
        /\ STREAM = 2
        /\ Len(recv[b]) > 0
        /\ emitted[recv[b][1]].src = 2

\* C28: a call of stream_bars whose subscribe raised while establishing the
\* upstream has left nothing in the subscriber set: every registered
\* subscriber belongs to a call that is attached or on its way in or out.
C28_FailedSubscribeNotRegistered ==
    \A c \in SUBSCRIBERS : pc[c] # "raised"

(***************************************************************************)
(* ws_bars: the live append                                                *)
(*   df = pd.concat([df, row]).sort_index().drop_duplicates()              *)
(* A row is [ts, val]: ts the index label, val the tuple of the five       *)
(* column values (Open, High, Low, Close, Volume) as one number.           *)
(***************************************************************************)
MaxSnap == 2                     \* rows of the initial snapshot
MaxLiveTs == 3                   \* distinct timestamps
MaxLive == 2                     \* bars received from the stream
LiveVals == {1, 2, 3}             \* distinct (O, H, L, C, V) tuples
LiveRows == [ts : 1..MaxLiveTs, val : LiveVals]

\* the index labels are strictly increasing
Clean(rows) ==
    \A i \in 1..Len(rows), j \in 1..Len(rows) : i < j => rows[i].ts < rows[j].ts

Perms(n) == {f \in [1..n -> 1..n] : \A i \in 1..n : \E j \in 1..n : f[j] = i}

NonDecreasing(rows) ==
    \A i \in 1..Len(rows), j \in 1..Len(rows) : i < j => rows[i].ts <= rows[j].ts

\* the frames sort_index() can return: the frame itself when its index is
\* already non-decreasing; otherwise the same rows with the index
\* non-decreasing, rows of equal label in either order (the default sort kind
\* is not stable)
sort_index(rows) ==
    IF NonDecreasing(rows) THEN {rows}
    ELSE {s \in {[k \in 1..Len(rows) |-> rows[f[k]]] : f \in Perms(Len(rows))} :
            NonDecreasing(s)}

\* drop_duplicates(): a row is dropped when an earlier row has the same column
\* values (keep="first"); the index label is not a column
RECURSIVE drop_duplicates(_)
drop_duplicates(rows) ==
    IF rows = <<>> THEN <<>>
    ELSE LET n == Len(rows)
             front == drop_duplicates(SubSeq(rows, 1, n - 1))
         IN IF \E i \in 1..(n - 1) : rows[i].val = rows[n].val
            THEN front ELSE Append(front, rows[n])

\* line 105: the frames the statement can assign to df
Construct(rows) == {drop_duplicates(s) : s \in sort_index(rows)}

\* lines 98-107: one bar of the stream is appended
LiveAppend(bar) ==
    /\ nlive < MaxLive
    /\ nlive' = nlive + 1
    /\ df' \in Construct(Append(df, bar))
    /\ UNCHANGED <<fast_col, slow_col, sig>>
    /\ UNCHANGED moreVars
    /\ UNCHANGED detVars
    /\ UNCHANGED fanVars

\* line 71: the snapshot of get_recent_ohlc, bars in time order
LiveInit ==
    /\ df \in {s \in UNION {[1..k -> LiveRows] : k \in 0..MaxSnap} : Clean(s)}
    /\ nlive = 0
    /\ fast_col = <<>>
    /\ slow_col = <<>>
    /\ sig = NoSig
    /\ MoreIdle

LiveSpecInit == DetIdle /\ FanInit /\ LiveInit

LiveNext == \E bar \in LiveRows : LiveAppend(bar)

SpecLive == LiveSpecInit /\ [][LiveNext]_vars

(***************************************************************************)
(* ma_crossover_signals and add_cross_signals. A cell of a moving-average  *)
(* column is None (NaN) or a value <<v>>.                                  *)
(***************************************************************************)
CrossLen == 3                    \* rows of the frame
CrossVals == {None, Some(1), Some(2)}

\* pandas comparisons: False when an operand is NaN
gt(a, b) == a # None /\ b # None /\ a[1] > b[1]
lt(a, b) == a # None /\ b # None /\ a[1] < b[1]
ge(a, b) == a # None /\ b # None /\ a[1] >= b[1]
le(a, b) == a # None /\ b # None /\ a[1] <= b[1]

\* the column compared with itself instead of its previous row
shift_none(col) == col
\* Series.shift(1): row t holds the value of row t-1, the first row NaN
shift(col) == [t \in 1..Len(col) |-> IF t = 1 THEN None ELSE col[t - 1]]

\* crossover.py lines 4-5, indicator_utils.py lines 61-62
cross_up(f, s) ==
    [t \in 1..Len(f) |-> gt(f[t], s[t]) /\ le(shift(f)[t], shift(s)[t])]
cross_dn(f, s) ==
    [t \in 1..Len(f) |-> lt(f[t], s[t]) /\ ge(shift(f)[t], shift(s)[t])]

\* .astype(int)
astype_int(col) == [t \in 1..Len(col) |-> IF col[t] THEN 1 ELSE 0]

\* crossover.py lines 3-6
CallCrossover ==
    /\ "ma_crossover_signals" \notin sig.returned
    /\ sig' = [sig EXCEPT !.buy = cross_up(fast_col, slow_col),
                          !.sell = cross_dn(fast_col, slow_col),
                          !.returned = @ \cup {"ma_crossover_signals"}]
    /\ UNCHANGED <<df, nlive, fast_col, slow_col>>
    /\ UNCHANGED moreVars
    /\ UNCHANGED detVars
    /\ UNCHANGED fanVars

\* indicator_utils.py lines 59-65
CallAddCross ==
    /\ "add_cross_signals" \notin sig.returned
    /\ sig' = [sig EXCEPT !.SIG_GOLDEN = astype_int(cross_up(fast_col, slow_col)),
                          !.SIG_DEATH = astype_int(cross_dn(fast_col, slow_col)),
                          !.returned = @ \cup {"add_cross_signals"}]
    /\ UNCHANGED <<df, nlive, fast_col, slow_col>>
    /\ UNCHANGED moreVars
    /\ UNCHANGED detVars
    /\ UNCHANGED fanVars

\* the two columns of one frame: the same number of rows
CrossInit ==
    /\ \E n \in 0..CrossLen :
         /\ fast_col \in [1..n -> CrossVals]
         /\ slow_col \in [1..n -> CrossVals]
    /\ sig = NoSig
    /\ df = <<>>
    /\ nlive = 0
    /\ MoreIdle

CrossSpecInit == DetIdle /\ FanInit /\ CrossInit

CrossNext ==
    \/ CallCrossover
    \/ CallAddCross

SpecCross == CrossSpecInit /\ [][CrossNext]_vars

(***************************************************************************)
(* Claims about the live series of ws_bars                                 *)
(***************************************************************************)
\* C14: after any sequence of received bars the timestamps of the accumulated
\* series are strictly increasing: a bar whose timestamp is already in the
\* series replaces the bar of that timestamp.
C14_TimestampsStrictlyIncreasing == Clean(df)

\* C15: the construction step applied to a series with strictly increasing
\* timestamps returns that series, whatever the bars' values are.
C15_ConstructionIdempotent == Clean(df) => Construct(df) = {df}

IsPrefix(a, b) == Len(a) <= Len(b) /\ SubSeq(b, 1, Len(a)) = a

\* C16: the series before a live append is a prefix of the series after it.
C16_AppendOnly == [][IsPrefix(df, df')]_vars

(***************************************************************************)
(* Claims about the crossover columns                                      *)
(***************************************************************************)
\* fast and slow are defined at row t and at row t-1
DefinedAt(t) ==
    /\ t > 1
    /\ fast_col[t] # None
    /\ slow_col[t] # None
    /\ fast_col[t - 1] # None
    /\ slow_col[t - 1] # None

BuyExpected(t) ==
    /\ DefinedAt(t)
    /\ fast_col[t][1] > slow_col[t][1]
    /\ fast_col[t - 1][1] <= slow_col[t - 1][1]

SellExpected(t) ==
    /\ DefinedAt(t)
    /\ fast_col[t][1] < slow_col[t][1]
    /\ fast_col[t - 1][1] >= slow_col[t - 1][1]

\* C17: on every row t, buy[t] (SIG_GOLDEN[t] = 1) holds exactly when
\* fast[t] > slow[t] and fast[t-1] <= slow[t-1], sell[t] (SIG_DEATH[t] = 1)
\* exactly when fast[t] < slow[t] and fast[t-1] >= slow[t-1]; both are false
\* when fast or slow is undefined at t or t-1 (the first row included), and
\* never both true.
C17_CrossoverRows ==
    /\ "ma_crossover_signals" \in sig.returned =>
         /\ Len(sig.buy) = Len(fast_col)
         /\ Len(sig.sell) = Len(fast_col)
         /\ \A t \in 1..Len(fast_col) :
              /\ sig.buy[t] <=> BuyExpected(t)
              /\ sig.sell[t] <=> SellExpected(t)
              /\ ~DefinedAt(t) => (~sig.buy[t] /\ ~sig.sell[t])
              /\ ~(sig.buy[t] /\ sig.sell[t])
    /\ "add_cross_signals" \in sig.returned =>
         /\ Len(sig.SIG_GOLDEN) = Len(fast_col)
         /\ Len(sig.SIG_DEATH) = Len(fast_col)
         /\ \A t \in 1..Len(fast_col) :
              /\ sig.SIG_GOLDEN[t] = (IF BuyExpected(t) THEN 1 ELSE 0)
              /\ sig.SIG_DEATH[t] = (IF SellExpected(t) THEN 1 ELSE 0)
              /\ ~DefinedAt(t) => (sig.SIG_GOLDEN[t] = 0 /\ sig.SIG_DEATH[t] = 0)
              /\ ~(sig.SIG_GOLDEN[t] = 1 /\ sig.SIG_DEATH[t] = 1)

\* both functions have returned on a frame with a buy row, a sell row, and a
\* row where fast is above slow but the previous row is missing or undefined
C17_Witness ==
    /\ sig.returned = {"ma_crossover_signals", "add_cross_signals"}
    /\ \E t \in 1..Len(fast_col) : sig.buy[t] /\ sig.SIG_GOLDEN[t] = 1
    /\ \E t \in 1..Len(fast_col) : sig.sell[t] /\ sig.SIG_DEATH[t] = 1
    /\ \E t \in 1..Len(fast_col) :
         /\ gt(fast_col[t], slow_col[t])
         /\ ~DefinedAt(t)
         /\ ~sig.buy[t]
         /\ sig.SIG_GOLDEN[t] = 0

(***************************************************************************)
(* The entry points: /api/ohlc, /api/ohlc/recent, /api/backtest of         *)
(* server.py and the historical flow and realtime loop of main.py.         *)
(* A provider fetch raises, returns an empty frame, or returns rows; of    *)
(* the rows only the last one matters to the realtime loop: its index      *)
(* label and its BRK_BUY / BRK_SELL flags after break_retest_signals.      *)
(***************************************************************************)
MaxPolls == 4                    \* iterations of the realtime loop
MaxPollTs == 2                   \* distinct index labels of a last row
Sources == {"yfinance", "alpaca"}
Strategies == {"break_retest", "ma_crossover"}
ApiNames == {"api_ohlc", "api_ohlc_recent", "api_backtest"}

Fetches ==
    {[kind |-> "raised", row |-> None], [kind |-> "empty", row |-> None]}
        \cup {[kind |-> "rows", row |-> Some([ts |-> t, buy |-> b, sell |-> x])] :
                t \in 1..MaxPollTs, b \in {0, 1}, x \in {0, 1}}

\* server.py lines 160-175, 207-216, 246-257: one request
ServeApi(name, source, available, strategy, res) ==
    /\ name \in ApiNames
    /\ ep' = IF name = "api_backtest" /\ strategy # "ma_crossover"
             THEN [NoRequest EXCEPT !.name = name, !.outcome = "error_dict"]
             ELSE IF source = "alpaca" /\ ~available
             THEN [NoRequest EXCEPT !.name = name, !.outcome = "http_400"]
             ELSE IF res.kind = "raised"
             THEN [NoRequest EXCEPT !.name = name, !.fetched = "raised",
                                    !.outcome = "raised"]
             ELSE IF res.kind = "empty"
             THEN [NoRequest EXCEPT !.name = name, !.fetched = "empty",
                                    !.outcome = "empty_result"]
             ELSE [name |-> name, fetched |-> "rows", computed |-> TRUE,
                   outcome |-> "result", row |-> res.row]
    /\ UNCHANGED <<last_alert_ts, notified, npoll, rt>>
    /\ UNCHANGED <<df, nlive, fast_col, slow_col, sig, prefix>>
    /\ UNCHANGED indVars
    /\ UNCHANGED detVars
    /\ UNCHANGED fanVars

\* main.py lines 77-86: the historical flow
CliHistorical(res) ==
    /\ rt = "off"
    /\ ep' = IF res.kind = "raised"
             THEN [NoRequest EXCEPT !.name = "cli_historical", !.fetched = "raised",
                                    !.outcome = "raised"]
             ELSE IF res.kind = "empty"
             THEN [NoRequest EXCEPT !.name = "cli_historical", !.fetched = "empty",
                                    !.outcome = "system_exit"]
             ELSE [name |-> "cli_historical", fetched |-> "rows", computed |-> TRUE,
                   outcome |-> "result", row |-> res.row]
    /\ UNCHANGED <<last_alert_ts, notified, npoll, rt>>
    /\ UNCHANGED <<df, nlive, fast_col, slow_col, sig, prefix>>
    /\ UNCHANGED indVars
    /\ UNCHANGED detVars
    /\ UNCHANGED fanVars

\* break_retest.py lines 138-157: (signal, timestamp) of the last row
last_signal_row(row) ==
    IF row = None THEN [sig |-> "None", ts |-> None]
    ELSE IF row[1].buy >= 1 THEN [sig |-> "BUY", ts |-> Some(row[1].ts)]
    ELSE IF row[1].sell >= 1 THEN [sig |-> "SELL", ts |-> Some(row[1].ts)]
    ELSE [sig |-> "None", ts |-> Some(row[1].ts)]

\* a bar as new as the last alert counted as new
NewerOrSame(ts, last) == last = None \/ ts[1] >= last[1]
\* main.py line 59: last_alert_ts is None or ts > last_alert_ts
Newer(ts, last) == last = None \/ ts[1] > last[1]

\* main.py lines 40-42: --realtime
RTStart ==
    /\ rt = "off"
    /\ rt' = "loop"
    /\ last_alert_ts' = None
    /\ UNCHANGED <<ep, notified, npoll>>
    /\ UNCHANGED <<df, nlive, fast_col, slow_col, sig, prefix>>
    /\ UNCHANGED indVars
    /\ UNCHANGED detVars
    /\ UNCHANGED fanVars

\* main.py lines 43-74: one iteration of the loop; res.kind = "raised" is an
\* exception anywhere in the try body before notify
RTPoll(res) ==
    /\ rt = "loop"
    /\ npoll < MaxPolls
    /\ npoll' = npoll + 1
    /\ LET last == last_signal_row(res.row)
           alert == /\ res.kind = "rows"
                    /\ last.sig # "None"
                    /\ last.ts # None
                    /\ Newer(last.ts, last_alert_ts)
       IN /\ ep' = [name |-> "cli_realtime", fetched |-> res.kind,
                    computed |-> (res.kind = "rows"),
                    outcome |-> IF alert THEN "notified" ELSE "continue",
                    row |-> res.row]
          /\ notified' = IF alert
                         THEN Append(notified, [sig |-> last.sig, ts |-> last.ts[1]])
                         ELSE notified
          /\ last_alert_ts' = IF alert THEN last.ts ELSE last_alert_ts
    /\ UNCHANGED rt
    /\ UNCHANGED <<df, nlive, fast_col, slow_col, sig, prefix>>
    /\ UNCHANGED indVars
    /\ UNCHANGED detVars
    /\ UNCHANGED fanVars

\* main.py lines 67-69: KeyboardInterrupt
RTInterrupt ==
    /\ rt = "loop"
    /\ rt' = "stopped"
    /\ UNCHANGED <<ep, last_alert_ts, notified, npoll>>
    /\ UNCHANGED <<df, nlive, fast_col, slow_col, sig, prefix>>
    /\ UNCHANGED indVars
    /\ UNCHANGED detVars
    /\ UNCHANGED fanVars

EntryInit ==
    /\ DetIdle
    /\ FanInit
    /\ AuxIdle

\* SpecEntry: requests to the three routes and the two flows of the CLI
EntryNext ==
    \/ \E name \in ApiNames, source \in Sources, available \in BOOLEAN,
          strategy \in Strategies, res \in Fetches :
          ServeApi(name, source, available, strategy, res)
    \/ \E res \in Fetches : CliHistorical(res)
    \/ RTStart
    \/ \E res \in Fetches : RTPoll(res)

SpecEntry == EntryInit /\ [][EntryNext]_vars

\* SpecRealtime: the realtime loop alone
RealtimeNext ==
    \/ RTStart
    \/ \E res \in Fetches : RTPoll(res)
    \/ RTInterrupt

SpecRealtime == EntryInit /\ [][RealtimeNext]_vars

(***************************************************************************)
(* ma, rsi and bollinger of indicator_utils.py. A cell is None (NaN) or    *)
(* <<v>>. A rolling mean over `period` cells is kept as the sum of the     *)
(* window (the mean times period), so that it stays an integer.            *)
(***************************************************************************)
IndLen == 3                      \* rows of the price column
IndPeriods == {1, 2}
IndCells == {None, Some(1), Some(2)}

RECURSIVE WindowSum(_, _, _)
WindowSum(col, lo, hi) ==
    IF lo > hi THEN 0 ELSE col[lo][1] + WindowSum(col, lo + 1, hi)

\* Series.rolling(n).mean(), min_periods = n: NaN until n cells are there and
\* whenever a cell of the window is NaN
rolling_mean(col, n) ==
    [t \in 1..Len(col) |->
        IF t >= n /\ \A k \in (t - n + 1)..t : col[k] # None
        THEN Some(WindowSum(col, t - n + 1, t)) ELSE None]

\* Series.diff(): NaN on the first row and next to a NaN
diff(col) ==
    [t \in 1..Len(col) |->
        IF t > 1 /\ col[t] # None /\ col[t - 1] # None
        THEN Some(col[t][1] - col[t - 1][1]) ELSE None]

\* delta.where(delta > 0, 0): the cell where the condition holds, else 0
where_pos(delta) ==
    [t \in 1..Len(delta) |->
        IF delta[t] # None /\ delta[t][1] > 0 THEN delta[t] ELSE Some(0)]

\* -delta.where(delta < 0, 0)
where_neg(delta) ==
    [t \in 1..Len(delta) |->
        IF delta[t] # None /\ delta[t][1] < 0 THEN Some(-delta[t][1]) ELSE Some(0)]

\* lines 39-43: RSI is a number wherever gain and loss both are; the cell
\* keeps the pair (sum of gains, sum of losses) it is computed from
rsi_col(col, n) ==
    LET gain == rolling_mean(where_pos(diff(col)), n)
        loss == rolling_mean(where_neg(diff(col)), n)
    IN [t \in 1..Len(col) |->
          IF gain[t] # None /\ loss[t] # None
          THEN Some(<<gain[t][1], loss[t][1]>>) ELSE None]

\* lines 12-17
CallMa ==
    /\ "ma" \notin ind.returned
    /\ ind' = [ind EXCEPT !.MA = rolling_mean(prices, period),
                          !.returned = @ \cup {"ma"}]
    /\ UNCHANGED <<prices, period>>
    /\ UNCHANGED <<df, nlive, fast_col, slow_col, sig, prefix>>
    /\ UNCHANGED cliVars
    /\ UNCHANGED detVars
    /\ UNCHANGED fanVars

\* lines 36-44
CallRsi ==
    /\ "rsi" \notin ind.returned
    /\ ind' = [ind EXCEPT !.RSI = rsi_col(prices, period),
                          !.returned = @ \cup {"rsi"}]
    /\ UNCHANGED <<prices, period>>
    /\ UNCHANGED <<df, nlive, fast_col, slow_col, sig, prefix>>
    /\ UNCHANGED cliVars
    /\ UNCHANGED detVars
    /\ UNCHANGED fanVars

\* lines 46-57: the middle band; the upper and lower bands are numbers on the
\* same rows
CallBollinger ==
    /\ "bollinger" \notin ind.returned
    /\ ind' = [ind EXCEPT !.BB_MA = rolling_mean(prices, period),
                          !.returned = @ \cup {"bollinger"}]
    /\ UNCHANGED <<prices, period>>
    /\ UNCHANGED <<df, nlive, fast_col, slow_col, sig, prefix>>
    /\ UNCHANGED cliVars
    /\ UNCHANGED detVars
    /\ UNCHANGED fanVars

IndInit ==
    /\ prices \in UNION {[1..k -> IndCells] : k \in 0..IndLen}
    /\ period \in IndPeriods
    /\ ind = NoInd
    /\ DetIdle
    /\ FanInit
    /\ df = <<>>
    /\ nlive = 0
    /\ fast_col = <<>>
    /\ slow_col = <<>>
    /\ sig = NoSig
    /\ prefix = [r \in Runs |-> None]
    /\ CliIdle

IndNext ==
    \/ CallMa
    \/ CallRsi
    \/ CallBollinger

SpecInd == IndInit /\ [][IndNext]_vars

(***************************************************************************)
(* Claims about the entry points                                           *)
(***************************************************************************)
\* C23: when the fetch returned an empty frame, the entry point ran neither
\* indicators nor detector and gave an empty result: it neither raised nor
\* ended the process with an error.
C23_EmptyFetchIsEmptyResult ==
    ep.fetched = "empty" =>
        /\ ~ep.computed
        /\ ep.outcome \in {"empty_result", "continue"}

\* every notification so far, oldest first, is later than the one before it
NotifiedIncreasing(n) ==
    \A i \in 1..Len(n), j \in 1..Len(n) : i < j => n[i].ts < n[j].ts

\* C29: a step of the realtime loop notifies only when the last row of the
\* fresh frame carries a buy or sell signal and its timestamp is later than
\* the last notified one; the notified timestamps stay strictly increasing;
\* a poll that raised or came back empty changes neither last_alert_ts nor
\* the notifications and leaves the loop running.
C29_AlertsStrictlyLater ==
    [][ /\ NotifiedIncreasing(notified')
        /\ notified' # notified =>
             /\ ep'.fetched = "rows"
             /\ ep'.row # None
             /\ (ep'.row[1].buy = 1 \/ ep'.row[1].sell = 1)
             /\ last_alert_ts # None => ep'.row[1].ts > last_alert_ts[1]
             /\ Len(notified') = Len(notified) + 1
             /\ notified'[Len(notified')].ts = ep'.row[1].ts
             /\ last_alert_ts' = Some(ep'.row[1].ts)
        /\ (npoll' # npoll /\ ep'.fetched \in {"raised", "empty"}) =>
             /\ last_alert_ts' = last_alert_ts
             /\ notified' = notified
             /\ rt' = "loop" ]_vars

\* two bars were notified, a later poll showed the second one again without a
\* new notification, and the last poll raised with the loop still running
C29_Witness ==
    /\ rt = "loop"
    /\ npoll = 4
    /\ Len(notified) = 2
    /\ last_alert_ts = Some(notified[2].ts)
    /\ ep.name = "cli_realtime"
    /\ ep.fetched = "raised"

(***************************************************************************)
(* Claims about the indicator columns                                      *)
(***************************************************************************)
\* fewer than n cells end at row t, or one of them is undefined
ShortOrGap(t, n) ==
    \/ t < n
    \/ \E k \in (t - n + 1)..t : k >= 1 /\ prices[k] = None

\* ma and bollinger: undefined on a short window or a window with a gap
MeansUndefined ==
    /\ "ma" \in ind.returned =>
         \A t \in 1..Len(prices) : ShortOrGap(t, period) => ind.MA[t] = None
    /\ "bollinger" \in ind.returned =>
         \A t \in 1..Len(prices) : ShortOrGap(t, period) => ind.BB_MA[t] = None

\* C24: MA and the Bollinger middle band are undefined on a row with fewer
\* than period prices up to it or an undefined price in its window; RSI is
\* undefined on a row with fewer than period price changes up to it or an
\* undefined price among the period + 1 prices those changes are taken from.
C24_UndefinedPropagates ==
    /\ MeansUndefined
    /\ "rsi" \in ind.returned =>
         \A t \in 1..Len(prices) : ShortOrGap(t, period + 1) => ind.RSI[t] = None

====
